---- MODULE Spec2Model ----
(***************************************************************************)
(* A model of the recursive ray tracer of src/src/recursive.cpp, its light *)
(* sampling and visibility code of src/src/light.cpp and the shading code  *)
(* of src/unnamed/part_000 (shading.cpp).                                  *)
(*                                                                         *)
(* Geometry is one-dimensional: a position is a point of a line, a         *)
(* direction is -1, 0 or 1, a surface is a point of the line with a        *)
(* normal of -1 or 1.  Floats are fixed-point integers: a length is in     *)
(* units of 0.0001, a colour channel or a fraction in units of 1/1024.     *)
(* NaN is a value of its own that every operation propagates the way IEEE  *)
(* arithmetic does.  A colour has two channels.                            *)
(***************************************************************************)
EXTENDS Integers, Sequences, FiniteSets, TLC

(***************************************************************************)
(* Bounds of the model.                                                    *)
(***************************************************************************)
\* surfaces a scene can hold
NumSurfaces == 3
\* largest numShadowSamples of a feature configuration
MaxShadowSamples == 2

\* The most lights a scene holds.
MaxLights == 2

\* The most rays in a batch given to renderRays.
MaxRays == 2

\* The most components of a gradient given to LinearGradient::sample.
MaxComponents == 3

(***************************************************************************)
(* Program constants, in the model's fixed-point units.                    *)
(***************************************************************************)
\* 1.0f as a colour channel, a fraction or a sample
One == 1024
\* 1.0f as a length: passthroughRay.t = 1.0f
PassthroughT == 10000
\* the 0.001f offset of the secondary rays
EpsRay == 10
\* the 0.0001f offset of the shadow rays
EpsShadow == 1
\* renderRay recurses only below this depth
MaxRayDepth == 6
\* Ray::t of a fresh Ray: std::numeric_limits<float>::max()
FltMax == 100000000
\* a length whose square overflows a float: sqrt(FLT_MAX) and beyond
Huge == 10000000
\* the float NaN
NaN == -2000000000

(***************************************************************************)
(* Float arithmetic.                                                       *)
(***************************************************************************)
IsNaN(x) == x = NaN

Abs(x) == IF x < 0 THEN -x ELSE x

fadd(a, b) == IF IsNaN(a) \/ IsNaN(b) THEN NaN ELSE a + b

fsub(a, b) == IF IsNaN(a) \/ IsNaN(b) THEN NaN ELSE a - b

fneg(a) == IF IsNaN(a) THEN NaN ELSE -a

\* a product of a pure number (a direction, a cosine) and any value
fmul(a, b) == IF IsNaN(a) \/ IsNaN(b) THEN NaN ELSE a * b

\* a product of two fixed-point fractions
fmulS(a, b) == IF IsNaN(a) \/ IsNaN(b) THEN NaN ELSE (a * b) \div One

fdiv(a, n) == IF IsNaN(a) THEN NaN ELSE a \div n

\* operator< and operator!= of floats: every comparison with NaN is false,
\* so NaN != x is true
flt(a, b) == ~IsNaN(a) /\ ~IsNaN(b) /\ a < b

fne(a, b) == IsNaN(a) \/ IsNaN(b) \/ a # b

\* operator<= of floats
fle(a, b) == ~IsNaN(a) /\ ~IsNaN(b) /\ a <= b

\* glm::max(x, y) is (x < y) ? y : x
glmMax(x, y) == IF flt(x, y) THEN y ELSE x

\* glm::min(x, y) is (y < x) ? y : x
glmMin(x, y) == IF flt(y, x) THEN y ELSE x

\* glm::normalize(v) is v * inversesqrt(dot(v, v)): NaN for the zero vector
\* (0 * inf), zero when dot(v, v) overflows to inf (v * 0)
normalize(v) ==
    IF IsNaN(v) \/ v = 0 THEN NaN
    ELSE IF Abs(v) >= Huge THEN 0
    ELSE IF v < 0 THEN -1 ELSE 1

\* glm::dot of two directions
dot(a, b) == fmul(a, b)

\* glm::pow(b, e) for a base that is 0, 1 or NaN and an exponent e >= 0
glmPow(b, e) ==
    IF e = 0 THEN 1
    ELSE IF IsNaN(b) THEN NaN
    ELSE b

(***************************************************************************)
(* Colours: glm::vec3 with two channels.                                   *)
(***************************************************************************)
Channels == 1..2

Vec(r, g) == <<r, g>>

Zero3 == Vec(0, 0)

vadd(c, d) == [i \in Channels |-> fadd(c[i], d[i])]

\* the component-wise product of two colours
vmul(c, d) == [i \in Channels |-> fmulS(c[i], d[i])]

\* a colour times a fixed-point fraction
vscale(c, s) == [i \in Channels |-> fmulS(c[i], s)]

\* a colour times a pure number
vtimes(c, k) == [i \in Channels |-> fmul(c[i], k)]

vdiv(c, n) == [i \in Channels |-> fdiv(c[i], n)]

\* glm::mix(x, y, a) is x * (1 - a) + y * a
mix(x, y, a) == vadd(vscale(x, fsub(One, a)), vscale(y, a))

\* glm::any(glm::notEqual(c, glm::vec3(0.0f)))
anyNotZero(c) == \E i \in Channels : fne(c[i], 0)

(***************************************************************************)
(* Scene data: materials, surfaces, lights.                                *)
(***************************************************************************)
\* The materials a surface can have.  transparency = One is fully opaque.
\* texel and texelBilinear are what sampleTextureNearest and
\* sampleTextureBilinear return for a textured material.
Materials == <<
    [kd |-> Vec(One, One \div 2), ks |-> Zero3, shininess |-> 1,
     transparency |-> One, kdTexture |-> FALSE, texel |-> Zero3, texelBilinear |-> Zero3],
    [kd |-> Vec(One \div 2, One), ks |-> Vec(0, One), shininess |-> 0,
     transparency |-> One, kdTexture |-> FALSE, texel |-> Zero3, texelBilinear |-> Zero3],
    [kd |-> Vec(One, One), ks |-> Zero3, shininess |-> 1,
     transparency |-> One \div 2, kdTexture |-> TRUE,
     texel |-> Vec(One \div 4, One), texelBilinear |-> Vec(One \div 2, One \div 2)],
    [kd |-> Vec(One \div 2, One \div 2), ks |-> Vec(One, One), shininess |-> 2,
     transparency |-> One \div 4, kdTexture |-> FALSE, texel |-> Zero3, texelBilinear |-> Zero3] >>

MaterialIds == 1..Len(Materials)

\* Surface i of a scene: the first at -1.0 facing right, the others at 1.0,
\* 2.5, 4.0, ... facing left.
SurfacePos(i) ==
    IF i = 1 THEN -PassthroughT
    ELSE PassthroughT + (i - 2) * (PassthroughT + PassthroughT \div 2)

SurfaceNormal(i) == IF i = 1 THEN 1 ELSE -1

PointLight(position, color) ==
    [kind |-> "point", position |-> position, color |-> color]

SegmentLight(endpoint0, endpoint1, color0, color1) ==
    [kind |-> "segment", endpoint0 |-> endpoint0, endpoint1 |-> endpoint1,
     color0 |-> color0, color1 |-> color1]

ParallelogramLight(v0, edge01, edge02, color0, color1, color2, color3) ==
    [kind |-> "parallelogram", v0 |-> v0, edge01 |-> edge01, edge02 |-> edge02,
     color0 |-> color0, color1 |-> color1, color2 |-> color2, color3 |-> color3]

\* The lights a scene can hold: a point light between the first two
\* surfaces, a point light between the second and the third, a segment
\* light and a parallelogram light.
LightPalette == <<
    PointLight(0, Vec(One, One)),
    PointLight(2 * PassthroughT, Vec(One, 2 * One)),
    SegmentLight(0, PassthroughT \div 2, Vec(One, 0), Vec(0, One)),
    ParallelogramLight(0, PassthroughT \div 2, PassthroughT \div 4,
                       Vec(One, 0), Vec(0, One), Vec(One, One), Vec(0, 0)) >>

Ray(origin, direction, t) == [origin |-> origin, direction |-> direction, t |-> t]

(***************************************************************************)
(* The external collaborators: the BVH, the environment map, the sampler.  *)
(***************************************************************************)
\* A ray with no direction or no origin.
Degenerate(ray) ==
    IsNaN(ray.origin) \/ IsNaN(ray.direction) \/ ray.direction = 0 \/ IsNaN(ray.t)

\* The distance along the ray to surface i.
Dist(ray, i) == (SurfacePos(i) - ray.origin) * ray.direction

\* The surfaces in front of the ray origin and nearer than ray.t.
HitCandidates(scene, ray) ==
    IF Degenerate(ray) THEN {}
    ELSE {i \in 1..NumSurfaces :
             scene.surfaces[i] # 0 /\ Dist(ray, i) > 0 /\ Dist(ray, i) < ray.t}

\* The nearest of the surfaces c.
Nearest(ray, c) == CHOOSE j \in c : \A k \in c : Dist(ray, j) <= Dist(ray, k)

\* What the BVH reports for a hit of surface i: its distance (written to
\* ray.t) and its HitInfo.
HitOf(scene, ray, i) ==
    [hit |-> TRUE, t |-> Dist(ray, i), surface |-> i,
     hitInfo |-> [normal |-> SurfaceNormal(i), material |-> Materials[scene.surfaces[i]]]]

\* The HitInfo of a ray that has hit nothing.
NoHit == [normal |-> 0, material |-> Materials[1]]

IntersectAmong(scene, ray, c) ==
    IF c = {} THEN [hit |-> FALSE, t |-> ray.t, surface |-> 0, hitInfo |-> NoHit]
    ELSE HitOf(scene, ray, Nearest(ray, c))

\* state.bvh.intersect(state, ray, hitInfo): the nearest surface in front of
\* the ray, if there is one.
Intersect(scene, ray) == IntersectAmong(scene, ray, HitCandidates(scene, ray))

\* sampleEnvironmentMap(state, ray): a colour that depends on the direction.
sampleEnvironmentMap(scene, ray) ==
    IF ray.direction = 1 THEN Vec(One, 0)
    ELSE IF ray.direction = -1 THEN Vec(0, One)
    ELSE Vec(One \div 2, One \div 2)

\* The numbers the sampler hands out, in order, over and over.
SampleSeq == <<One \div 2, 0, One \div 4>>

\* The k-th number drawn, counting from 0.
SampleAt(k) == SampleSeq[(k % Len(SampleSeq)) + 1]

(***************************************************************************)
(* Shading (shading.cpp).  A direction handed to these is a pure number;   *)
(* state is [scene, features].                                             *)
(***************************************************************************)
sampleMaterialKd(state, hitInfo) ==
    IF state.features.enableTextureMapping /\ hitInfo.material.kdTexture
    THEN IF state.features.enableBilinearTextureFiltering
         THEN hitInfo.material.texelBilinear
         ELSE hitInfo.material.texel
    ELSE hitInfo.material.kd

computeLambertianModel(state, cameraDirection, lightDirection, lightColor, hitInfo) ==
    LET N == normalize(hitInfo.normal)
        L == normalize(lightDirection)
        lambertian == glmMax(0, dot(N, L))
        kd == sampleMaterialKd(state, hitInfo)
    IN  vtimes(vmul(kd, lightColor), lambertian)

\* glm::reflect(I, N) is I - N * dot(N, I) * 2
reflect(I, N) == fsub(I, fmul(fmul(N, dot(N, I)), 2))

computePhongModel(state, cameraDirection, lightDirection, lightColor, hitInfo) ==
    LET N == normalize(hitInfo.normal)
        L == normalize(lightDirection)
        V == normalize(cameraDirection)
        R == reflect(fneg(L), N)
        NdotL == glmMax(dot(N, L), 0)
        kd == vtimes(sampleMaterialKd(state, hitInfo), NdotL)
        diffuse == vtimes(vmul(kd, lightColor), NdotL)
        RdotV == glmMax(dot(R, V), 0)
        specular == vtimes(vmul(hitInfo.material.ks, lightColor), RdotV)
    IN  vadd(diffuse, specular)

computeBlinnPhongModel(state, cameraDirection, lightDirection, lightColor, hitInfo) ==
    LET N == normalize(hitInfo.normal)
        L == normalize(lightDirection)
        V == normalize(cameraDirection)
        H == normalize(fadd(L, V))
        NdotL == glmMax(dot(N, L), 0)
        kd == sampleMaterialKd(state, hitInfo)
        diffuse == vtimes(vmul(kd, lightColor), NdotL)
        NdotH == glmPow(glmMax(0, dot(N, H)), hitInfo.material.shininess)
        specular == vtimes(vmul(hitInfo.material.ks, lightColor), NdotH)
    IN  vadd(diffuse, specular)

\* The search loop of LinearGradient::sample from index i on: the first
\* adjacent pair with ta <= ti <= tb, or the trailing assert(false).
RECURSIVE sampleLoop(_, _, _)
\* The search loop that blends from the second colour of the pair to the
\* first.
sampleLoop_Swapped(components, ti, i) ==
    IF i > Len(components) - 1
    THEN [color |-> Zero3, failed |-> "unreachable"]
    ELSE IF fle(components[i].t, ti) /\ fle(ti, components[i + 1].t)
         THEN [color |-> mix(components[i + 1].color, components[i].color,
                             IF components[i + 1].t = components[i].t THEN NaN
                             ELSE ((ti - components[i].t) * One)
                                      \div (components[i + 1].t - components[i].t)),
               failed |-> "none"]
         ELSE sampleLoop(components, ti, i + 1)

\* The search loop that looks for ta < ti < tb.
sampleLoop_Strict(components, ti, i) ==
    IF i > Len(components) - 1
    THEN [color |-> Zero3, failed |-> "unreachable"]
    ELSE IF flt(components[i].t, ti) /\ flt(ti, components[i + 1].t)
         THEN [color |-> mix(components[i].color, components[i + 1].color,
                             ((ti - components[i].t) * One)
                                 \div (components[i + 1].t - components[i].t)),
               failed |-> "none"]
         ELSE sampleLoop(components, ti, i + 1)

sampleLoop(components, ti, i) ==
    IF i > Len(components) - 1
    THEN [color |-> Zero3, failed |-> "unreachable"]
    ELSE LET ta == components[i].t
             tb == components[i + 1].t
         IN  IF fle(ta, ti) /\ fle(ti, tb)
             THEN LET alpha == IF tb = ta THEN NaN
                               ELSE ((ti - ta) * One) \div (tb - ta)
                  IN  [color |-> mix(components[i].color, components[i + 1].color, alpha),
                       failed |-> "none"]
             ELSE sampleLoop(components, ti, i + 1)

\* LinearGradient::sample(ti): the colour returned and the assertion that
\* failed, if one did ("size": the entry assertion, "unreachable": the
\* trailing assert(false), after which a build without assertions returns 0).
sample(components, ti) ==
    IF Len(components) < 2 THEN [color |-> Zero3, failed |-> "size"]
    ELSE IF fle(ti, components[1].t)
         THEN [color |-> components[1].color, failed |-> "none"]
    ELSE IF fle(components[Len(components)].t, ti)
         THEN [color |-> components[Len(components)].color, failed |-> "none"]
    ELSE sampleLoop(components, ti, 1)

\* The hardcoded gradient of computeShading: t in units of 1/1024, colours
\* n/256 as 4n/1024.
gradient == <<
    [t |-> 102, color |-> Vec(4 * 215, 4 * 210)],
    [t |-> 225, color |-> Vec(4 * 250, 4 * 250)],
    [t |-> 512, color |-> Vec(4 * 145, 4 * 170)],
    [t |-> 799, color |-> Vec(4 * 255, 4 * 250)],
    [t |-> 922, color |-> Vec(4 * 170, 4 * 170)] >>

computeLinearGradientModel(state, cameraDirection, lightDirection, lightColor, hitInfo, grad) ==
    LET cos_theta == dot(normalize(lightDirection), normalize(hitInfo.normal))
        clamped == glmMin(glmMax(cos_theta, -1), 1)
        sampledColor == sample(grad, fmul(clamped, One)).color
    IN  vmul(sampledColor, lightColor)

computeShading(state, cameraDirection, lightDirection, lightColor, hitInfo) ==
    IF state.features.enableShading
    THEN CASE state.features.shadingModel = "Lambertian" ->
                computeLambertianModel(state, cameraDirection, lightDirection, lightColor, hitInfo)
           [] state.features.shadingModel = "Phong" ->
                computePhongModel(state, cameraDirection, lightDirection, lightColor, hitInfo)
           [] state.features.shadingModel = "BlinnPhong" ->
                computeBlinnPhongModel(state, cameraDirection, lightDirection, lightColor, hitInfo)
           [] state.features.shadingModel = "LinearGradient" ->
                computeLinearGradientModel(state, cameraDirection, lightDirection, lightColor,
                                           hitInfo, gradient)
    ELSE vmul(lightColor, sampleMaterialKd(state, hitInfo))

(***************************************************************************)
(* Light sampling and visibility (light.cpp).                              *)
(***************************************************************************)
\* sampleSegmentLight: the position and the colour of a 1d sample.
sampleSegmentLight(smp, light) ==
    [position |-> fadd(light.endpoint0,
                       fmulS(smp, fsub(light.endpoint1, light.endpoint0))),
     color |-> mix(light.color0, light.color1, smp)]

\* sampleParallelogramLight: the position and the colour of a 2d sample.
sampleParallelogramLight(smp, light) ==
    LET sx == smp[1]
        sy == smp[2]
    IN  [position |-> fadd(light.v0, fadd(fmulS(light.edge01, sx),
                                          fmulS(light.edge02, sy))),
         color |-> vadd(vadd(vscale(vscale(light.color0, One - sx), One - sy),
                             vscale(vscale(light.color1, sx), One - sy)),
                        vadd(vscale(vscale(light.color2, One - sx), sy),
                             vscale(vscale(light.color3, sx), sy)))]

\* ray.origin + ray.direction * ray.t
PointAt(ray) == fadd(ray.origin, fmul(ray.direction, ray.t))

\* The shadow ray of visibilityOfLightSampleBinary.
BinaryShadowRay(lightPosition, ray) ==
    LET origin == fadd(PointAt(ray), EpsShadow)
    IN  Ray(origin, normalize(fsub(lightPosition, origin)), FltMax)

\* The test with its outcomes exchanged.
visibilityOfLightSampleBinary_Inverted(state, lightPosition, lightColor, ray, hitInfo) ==
    Intersect(state.scene, BinaryShadowRay(lightPosition, ray)).hit

\* visibilityOfLightSampleBinary: TRUE when the light sample is visible.
visibilityOfLightSampleBinary(state, lightPosition, lightColor, ray, hitInfo) ==
    LET isShadowed == Intersect(state.scene, BinaryShadowRay(lightPosition, ray)).hit
    IN  IF isShadowed THEN FALSE ELSE TRUE

\* The shadow ray of visibilityOfLightSampleTransparency.
TransparencyShadowRay(lightPosition, ray) ==
    LET origin == fadd(PointAt(ray), EpsRay)
    IN  Ray(origin, normalize(fsub(lightPosition, origin)), FltMax)

\* The attenuation taken from the material of what the shadow ray hit.
visibilityOfLightSampleTransparency_Occluder(state, lightPosition, lightColor, ray, hitInfo) ==
    LET h == Intersect(state.scene, TransparencyShadowRay(lightPosition, ray))
    IN  IF h.hit
        THEN vscale(vmul(lightColor, h.hitInfo.material.kd),
                    fsub(One, h.hitInfo.material.transparency))
        ELSE lightColor

visibilityOfLightSampleTransparency(state, lightPosition, lightColor, ray, hitInfo) ==
    LET isShadowed == Intersect(state.scene, TransparencyShadowRay(lightPosition, ray)).hit
    IN  IF isShadowed
        THEN vscale(vmul(lightColor, hitInfo.material.kd),
                    fsub(One, hitInfo.material.transparency))
        ELSE lightColor

\* The dispatch that tests for shadows whether or not they are enabled.
visibilityOfLightSample_AlwaysTests(state, lightPosition, lightColor, ray, hitInfo) ==
    IF ~state.features.enableTransparency
    THEN [color |-> IF visibilityOfLightSampleBinary(state, lightPosition, lightColor,
                                                     ray, hitInfo)
                    THEN lightColor ELSE Zero3,
          bvh |-> 1]
    ELSE [color |-> visibilityOfLightSampleTransparency(state, lightPosition, lightColor,
                                                        ray, hitInfo),
          bvh |-> 1]

\* visibilityOfLightSample: the colour and the number of BVH intersections.
visibilityOfLightSample(state, lightPosition, lightColor, ray, hitInfo) ==
    IF ~state.features.enableShadows
    THEN [color |-> lightColor, bvh |-> 0]
    ELSE IF ~state.features.enableTransparency
    THEN [color |-> IF visibilityOfLightSampleBinary(state, lightPosition, lightColor,
                                                     ray, hitInfo)
                    THEN lightColor ELSE Zero3,
          bvh |-> 1]
    ELSE [color |-> visibilityOfLightSampleTransparency(state, lightPosition, lightColor,
                                                        ray, hitInfo),
          bvh |-> 1]

\* The contribution that is the shading whether or not the light is visible.
PointLightResult_Unshadowed(state, light, hitInfo, shadowRay, isLightVisible, shadingResult) ==
    [color |-> shadingResult, bvh |-> 1, shade |-> 1]

\* computeContributionPointLight: the contribution, the BVH intersections
\* made (bvh) and the computeShading calls made (shade).
PointLightResult(state, light, hitInfo, shadowRay, isLightVisible, shadingResult) ==
    IF isLightVisible
    THEN IF flt(hitInfo.material.transparency, One)
         THEN LET transparentShadowColor ==
                      visibilityOfLightSampleTransparency(state, light.position,
                                                          light.color, shadowRay, hitInfo)
              IN  [color |-> vadd(vscale(shadingResult,
                                         fsub(One, hitInfo.material.transparency)),
                                  transparentShadowColor),
                   bvh |-> 2, shade |-> 1]
         ELSE [color |-> shadingResult, bvh |-> 1, shade |-> 1]
    ELSE [color |-> Zero3, bvh |-> 1, shade |-> 0]

computeContributionPointLight(state, light, ray, hitInfo) ==
    LET intersectionPoint == fadd(PointAt(ray), EpsShadow)
        lightDirection == normalize(fsub(light.position, intersectionPoint))
        shadowOrigin == fadd(intersectionPoint, EpsRay)
        shadowRay == Ray(shadowOrigin, normalize(fsub(light.position, shadowOrigin)), FltMax)
        viewDirection == fneg(ray.direction)
    IN  PointLightResult(state, light, hitInfo, shadowRay,
            visibilityOfLightSampleBinary(state, light.position, light.color, ray, hitInfo),
            computeShading(state, viewDirection, lightDirection, light.color, hitInfo))

\* What a light's contribution starts from, with the sampler at smp: the
\* colour accumulated, the BVH intersections, computeShading calls and
\* sampler calls made, and the numbers the sampler has handed out.
NoLight(smp) == [color |-> Zero3, bvh |-> 0, shade |-> 0, draws |-> 0, sampler |-> smp]

\* One light sample taken: its visibility tested, its shading accumulated
\* when it is visible; numbers is how many numbers the sample consumed.
Accumulate(acc, isLightVisible, shadingResult, numbers) ==
    [color |-> IF isLightVisible THEN vadd(acc.color, shadingResult) ELSE acc.color,
     bvh |-> acc.bvh + 1,
     shade |-> acc.shade + (IF isLightVisible THEN 1 ELSE 0),
     draws |-> acc.draws + 1,
     sampler |-> acc.sampler + numbers]

\* The division made whatever numSamples is: 0 / 0 is NaN.
Normalized_Unconditional(acc, numSamples) ==
    [acc EXCEPT !.color = IF numSamples = 0 THEN Vec(NaN, NaN)
                          ELSE vdiv(acc.color, numSamples)]

\* accumulatedLight /= numSamples, when numSamples > 0
Normalized(acc, numSamples) ==
    IF numSamples > 0 THEN [acc EXCEPT !.color = vdiv(acc.color, numSamples)] ELSE acc

\* The body of the sample loop of computeContributionSegmentLight for the
\* light sample s.
segmentSample(state, ray, hitInfo, acc, s) ==
    LET intersectionPoint == PointAt(ray)
        lightDirection == normalize(fsub(s.position, intersectionPoint))
        shadowRay == Ray(fadd(intersectionPoint, fmul(EpsRay, hitInfo.normal)),
                         lightDirection, FltMax)
    IN  Accumulate(acc,
            visibilityOfLightSampleBinary(state, s.position, s.color, shadowRay, hitInfo),
            computeShading(state, fneg(ray.direction), lightDirection, s.color, hitInfo),
            1)

RECURSIVE segmentLoop(_, _, _, _, _, _, _)
segmentLoop(state, light, ray, hitInfo, numSamples, i, acc) ==
    IF i >= numSamples THEN acc
    ELSE segmentLoop(state, light, ray, hitInfo, numSamples, i + 1,
             segmentSample(state, ray, hitInfo, acc,
                           sampleSegmentLight(SampleAt(acc.sampler), light)))

computeContributionSegmentLight(state, light, ray, hitInfo, numSamples, smp) ==
    Normalized(segmentLoop(state, light, ray, hitInfo, numSamples, 0, NoLight(smp)),
               numSamples)

\* The body of the sample loop of computeContributionParallelogramLight.
parallelogramSample(state, ray, hitInfo, acc, s) ==
    LET intersectionPoint == fadd(PointAt(ray), EpsRay)
        lightDirection == normalize(fsub(s.position, intersectionPoint))
        shadowRay == Ray(intersectionPoint,
                         normalize(fsub(s.position, intersectionPoint)), FltMax)
    IN  Accumulate(acc,
            visibilityOfLightSampleBinary(state, s.position, s.color, shadowRay, hitInfo),
            computeShading(state, fneg(ray.direction), lightDirection, s.color, hitInfo),
            2)

RECURSIVE parallelogramLoop(_, _, _, _, _, _, _)
parallelogramLoop(state, light, ray, hitInfo, numSamples, i, acc) ==
    IF i >= numSamples THEN acc
    ELSE parallelogramLoop(state, light, ray, hitInfo, numSamples, i + 1,
             parallelogramSample(state, ray, hitInfo, acc,
                 sampleParallelogramLight(
                     <<SampleAt(acc.sampler), SampleAt(acc.sampler + 1)>>, light)))

computeContributionParallelogramLight(state, light, ray, hitInfo, numSamples, smp) ==
    Normalized(parallelogramLoop(state, light, ray, hitInfo, numSamples, 0, NoLight(smp)),
               numSamples)

\* The contribution of a point light as a light's contribution.
AsLight(c, smp) ==
    [color |-> c.color, bvh |-> c.bvh, shade |-> c.shade, draws |-> 0, sampler |-> smp]

\* The contribution of one light of any kind, with the sampler at smp.
lightContribution(state, light, ray, hitInfo, smp) ==
    CASE light.kind = "point" ->
            AsLight(computeContributionPointLight(state, light, ray, hitInfo), smp)
      [] light.kind = "segment" ->
            computeContributionSegmentLight(state, light, ray, hitInfo,
                                            state.features.numShadowSamples, smp)
      [] light.kind = "parallelogram" ->
            computeContributionParallelogramLight(state, light, ray, hitInfo,
                                                  state.features.numShadowSamples, smp)

\* The sum in which every light draws from where the sampler stood at first.
AddLight_SharedSampler(acc, c) ==
    [color |-> vadd(acc.color, c.color),
     bvh |-> acc.bvh + c.bvh,
     shade |-> acc.shade + c.shade,
     draws |-> acc.draws + c.draws,
     sampler |-> acc.sampler]

\* The loop of computeLightContribution over lights k, k+1, ...
\* Lo += the contribution c of the next light
AddLight(acc, c) ==
    [color |-> vadd(acc.color, c.color),
     bvh |-> acc.bvh + c.bvh,
     shade |-> acc.shade + c.shade,
     draws |-> acc.draws + c.draws,
     sampler |-> c.sampler]

RECURSIVE lightLoop(_, _, _, _, _)
lightLoop(state, ray, hitInfo, k, acc) ==
    IF k > Len(state.scene.lights) THEN acc
    ELSE lightLoop(state, ray, hitInfo, k + 1,
             AddLight(acc, lightContribution(state, state.scene.lights[k], ray, hitInfo,
                                             acc.sampler)))

\* computeLightContribution: the sum Lo, the BVH intersections, the shading
\* evaluations and the sampler calls made, and the sampler afterwards.
computeLightContribution(state, ray, hitInfo, smp) ==
    lightLoop(state, ray, hitInfo, 1, NoLight(smp))

(***************************************************************************)
(* The recursive renderer (recursive.cpp) as a call stack.                 *)
(*                                                                         *)
(* A frame is one active call: fn is the function, ray, hitInfo and        *)
(* rayDepth its arguments and locals, Lo the colour it is computing (Lo of *)
(* renderRay, hitColor of a component), pc where it stands.  Two fields    *)
(* record what happened: direct is what computeLightContribution gave      *)
(* renderRay, seen the calls the frame has made that have returned, in     *)
(* order, with the colour each recursive renderRay call returned.          *)
(***************************************************************************)
VARIABLES
    scene,      \* state.scene: the surfaces behind the BVH and the lights
    features,   \* state.features
    sampler,    \* state.sampler: how many numbers it has handed out
    stack,      \* the active calls, the innermost last
    result,     \* [done, color]: what the outermost call returned
    returned,   \* the last return: [frame, miss, color]
    stats,      \* calls made so far: renderRay, computeLightContribution,
                \* BVH intersections, sampler calls; and the steps taken
    probe,      \* the arguments of a call of one of the functions of light.cpp
    out         \* what that call returned

vars == <<scene, features, sampler, stack, result, returned, stats, probe, out>>

RenderState == [scene |-> scene, features |-> features]

Frame(fn, ray, hitInfo, Lo, rayDepth, pc) ==
    [fn |-> fn, ray |-> ray, hitInfo |-> hitInfo, Lo |-> Lo,
     rayDepth |-> rayDepth, pc |-> pc, direct |-> Zero3, seen |-> <<>>]

Top == stack[Len(stack)]

Running(fn, pc) == stack # <<>> /\ Top.fn = fn /\ Top.pc = pc

\* generateReflectionRay
generateReflectionRay(ray, hitInfo) ==
    LET incidentDirection == normalize(ray.direction)
        normal == normalize(hitInfo.normal)
        reflectedDirection ==
            fsub(incidentDirection,
                 fmul(fmul(2, dot(incidentDirection, normal)), normal))
        intersectionPoint == fadd(PointAt(ray), fmul(EpsRay, normal))
    IN  Ray(intersectionPoint, reflectedDirection, FltMax)

\* generatePassthroughRay
generatePassthroughRay(ray, hitInfo) ==
    Ray(fadd(PointAt(ray), EpsRay), ray.direction, PassthroughT)

\* The depth test off by one: rayDepth <= 6.
DepthAllowsRecursion_Inclusive(rayDepth) == rayDepth <= MaxRayDepth

\* if (rayDepth < 6) of renderRay
DepthAllowsRecursion(rayDepth) == rayDepth < MaxRayDepth

isReflective(hitInfo) == anyNotZero(hitInfo.material.ks)

isTransparent(hitInfo) == fne(hitInfo.material.transparency, One)

\* The mirror branch taken whether or not the glossy variant is enabled.
SpecularBranch_IgnoresGlossy(f) ==
    features.enableReflections /\ isReflective(f.hitInfo)

\* The conditions of the three branches of renderRay.
SpecularBranch(f) ==
    features.enableReflections /\ ~features.enableGlossyReflection /\ isReflective(f.hitInfo)

GlossyBranch(f) ==
    features.enableReflections /\ features.enableGlossyReflection /\ isReflective(f.hitInfo)

\* The transparency branch taken only when the mirror branch is not.
TransparentBranch_Exclusive(f) ==
    features.enableTransparency /\ isTransparent(f.hitInfo) /\ ~SpecularBranch(f)

TransparentBranch(f) ==
    features.enableTransparency /\ isTransparent(f.hitInfo)

\* hitColor += material.ks * reflectedColor
SpecularBlend(hitColor, hitInfo, reflectedColor) ==
    vadd(hitColor, vmul(hitInfo.material.ks, reflectedColor))

\* The blend with its colours exchanged.
TransparentBlend_Swapped(hitColor, hitInfo, passthroughColor) ==
    mix(passthroughColor, hitColor, hitInfo.material.transparency)

\* hitColor = glm::mix(hitColor, passthroughColor, material.transparency)
TransparentBlend(hitColor, hitInfo, passthroughColor) ==
    mix(hitColor, passthroughColor, hitInfo.material.transparency)

\* What a caller records of a call that has returned color.  Of a
\* component: whether it made its recursive renderRay call, the colour that
\* call returned, and the hitColor before and after.
Seen(callee, color) ==
    IF callee.fn = "renderRay"
    THEN [fn |-> "renderRay", recursed |-> TRUE, color |-> color,
          before |-> Zero3, after |-> color]
    ELSE [fn |-> callee.fn, recursed |-> callee.seen # <<>>,
          color |-> IF callee.seen # <<>> THEN callee.seen[1].color ELSE Zero3,
          before |-> callee.direct, after |-> color]

\* The caller's frame once callee, on top of it, has returned color.  A
\* component takes the colour of its recursive renderRay call into hitColor;
\* renderRay takes the hitColor its component leaves into Lo.
Resume(caller, callee, color) ==
    CASE caller.fn = "renderRaySpecularComponent" ->
            [caller EXCEPT !.Lo = SpecularBlend(caller.Lo, caller.hitInfo, color),
                           !.pc = "done", !.seen = Append(@, Seen(callee, color))]
      [] caller.fn = "renderRayGlossyComponent" ->
            [caller EXCEPT !.Lo = SpecularBlend(caller.Lo, caller.hitInfo, color),
                           !.pc = "done", !.seen = Append(@, Seen(callee, color))]
      [] caller.fn = "renderRayTransparentComponent" ->
            [caller EXCEPT !.Lo = TransparentBlend(caller.Lo, caller.hitInfo, color),
                           !.pc = "done", !.seen = Append(@, Seen(callee, color))]
      [] caller.fn = "renderRay" ->
            [caller EXCEPT !.Lo = color,
                           !.pc = CASE caller.pc = "inSpecular" -> "glossy"
                                    [] caller.pc = "inGlossy" -> "transparent"
                                    [] caller.pc = "inTransparent" -> "return",
                           !.seen = Append(@, Seen(callee, color))]

\* The top frame returns color: it is popped, and its caller resumes or,
\* for the outermost call, the result is recorded.  returned keeps the
\* frame as it was when it returned; miss tells a return of the environment
\* map's sample.
ReturnFromTop(color, miss) ==
    /\ returned' = [frame |-> Top, miss |-> miss, color |-> color]
    /\ IF Len(stack) = 1
       THEN /\ stack' = <<>>
            /\ result' = [done |-> TRUE, color |-> color]
       ELSE /\ stack' = [i \in 1..(Len(stack) - 2) |-> stack[i]]
                           \o <<Resume(stack[Len(stack) - 1], Top, color)>>
            /\ UNCHANGED result

\* The top frame moves to pc.
Step(pc) == stack' = [stack EXCEPT ![Len(stack)].pc = pc]

\* The top frame moves to pc and calls callee.
Call(pc, callee) == stack' = [stack EXCEPT ![Len(stack)].pc = pc] \o <<callee>>

\* Nothing has been called yet.
Idle == stack = <<>> /\ ~result.done /\ probe.fn = "none"

\* A step that makes n calls of the kind field.
Count(field, n) == stats' = [stats EXCEPT ![field] = @ + n, !.steps = @ + 1]

\* A step that makes no call that is counted.
Tick == stats' = [stats EXCEPT !.steps = @ + 1]

(***************************************************************************)
(* The calls from outside: renderRay on a camera ray at depth 0, and the   *)
(* two unit-tested components on a ray and a HitInfo of the caller's.      *)
(***************************************************************************)
\* the directions of a camera ray; 0 is the degenerate ray
Directions == {-1, 0, 1}

\* the rayDepth a component is called with from outside
ComponentDepths == {0, MaxRayDepth - 1}

\* the hitColor a component is called with from outside
HarnessColor == Vec(One \div 2, One \div 4)

CallRenderRay ==
    /\ Idle
    /\ \E d \in Directions :
          stack' = <<Frame("renderRay", Ray(0, d, FltMax), NoHit, Zero3, 0, "intersect")>>
    /\ Count("renderRay", 1)
    /\ UNCHANGED <<scene, features, sampler, result, returned, probe, out>>

\* A component's frame: direct keeps the hitColor it was called with.
ComponentFrame(fn, ray, hitInfo, hitColor, rayDepth) ==
    [Frame(fn, ray, hitInfo, hitColor, rayDepth, "start") EXCEPT !.direct = hitColor]

\* The ray of a component call: it left 0 in direction d and has hit
\* something at distance 1.0; the HitInfo faces it.
CallComponent(fn) ==
    /\ Idle
    /\ \E d \in Directions, m \in MaterialIds, depth \in ComponentDepths :
          stack' = <<ComponentFrame(fn, Ray(0, d, PassthroughT),
                         [normal |-> IF d = 1 THEN -1 ELSE 1, material |-> Materials[m]],
                         HarnessColor, depth)>>
    /\ Tick
    /\ UNCHANGED <<scene, features, sampler, result, returned, probe, out>>

CallSpecularComponent == CallComponent("renderRaySpecularComponent")

CallTransparentComponent == CallComponent("renderRayTransparentComponent")

(***************************************************************************)
(* renderRay                                                               *)
(***************************************************************************)
\* The ray once the BVH has written the distance of the hit h to ray.t.
HitRay(ray, h) == [ray EXCEPT !.t = h.t]

\* The frame f of renderRay once computeLightContribution has returned lc
\* for the hit hitInfo of ray.
Shade(f, ray, hitInfo, lc) ==
    [f EXCEPT !.ray = ray, !.hitInfo = hitInfo, !.Lo = lc.color, !.direct = lc.color,
              !.pc = IF DepthAllowsRecursion(f.rayDepth) THEN "specular" ELSE "return"]

\* Lo = computeLightContribution(state, ray, hitInfo), which returned lc.
Lit(ray, hitInfo, lc) ==
    /\ stack' = [stack EXCEPT ![Len(stack)] = Shade(@, ray, hitInfo, lc)]
    /\ sampler' = lc.sampler
    /\ stats' = [stats EXCEPT !.bvh = @ + 1 + lc.bvh, !.light = @ + 1,
                              !.draws = @ + lc.draws, !.steps = @ + 1]

\* The hit h of ray: the lights are summed along the ray with its new t.
Hit(ray, hitInfo) ==
    Lit(ray, hitInfo, computeLightContribution(RenderState, ray, hitInfo, sampler))

\* A miss treated as a hit of nothing: the lights are summed all the same.
RenderRayMiss_Shades ==
    /\ Running("renderRay", "intersect")
    /\ ~Intersect(scene, Top.ray).hit
    /\ Hit(Top.ray, NoHit)
    /\ UNCHANGED <<scene, features, result, returned, probe, out>>

\* No hit: return the environment map's sample.
RenderRayMiss ==
    /\ Running("renderRay", "intersect")
    /\ ~Intersect(scene, Top.ray).hit
    /\ ReturnFromTop(sampleEnvironmentMap(scene, Top.ray), TRUE)
    /\ Count("bvh", 1)
    /\ UNCHANGED <<scene, features, sampler, probe, out>>

\* A hit: Lo is the contribution of the lights.
RenderRayHit ==
    /\ Running("renderRay", "intersect")
    /\ Intersect(scene, Top.ray).hit
    /\ Hit(HitRay(Top.ray, Intersect(scene, Top.ray)), Intersect(scene, Top.ray).hitInfo)
    /\ UNCHANGED <<scene, features, result, returned, probe, out>>

Component(fn) == ComponentFrame(fn, Top.ray, Top.hitInfo, Top.Lo, Top.rayDepth)

RenderRaySpecular ==
    /\ Running("renderRay", "specular")
    /\ SpecularBranch(Top)
    /\ Call("inSpecular", Component("renderRaySpecularComponent"))
    /\ Tick
    /\ UNCHANGED <<scene, features, sampler, result, returned, probe, out>>

RenderRaySkipSpecular ==
    /\ Running("renderRay", "specular")
    /\ ~SpecularBranch(Top)
    /\ Step("glossy")
    /\ Tick
    /\ UNCHANGED <<scene, features, sampler, result, returned, probe, out>>

RenderRayGlossy ==
    /\ Running("renderRay", "glossy")
    /\ GlossyBranch(Top)
    /\ Call("inGlossy", Component("renderRayGlossyComponent"))
    /\ Tick
    /\ UNCHANGED <<scene, features, sampler, result, returned, probe, out>>

RenderRaySkipGlossy ==
    /\ Running("renderRay", "glossy")
    /\ ~GlossyBranch(Top)
    /\ Step("transparent")
    /\ Tick
    /\ UNCHANGED <<scene, features, sampler, result, returned, probe, out>>

RenderRayTransparent ==
    /\ Running("renderRay", "transparent")
    /\ TransparentBranch(Top)
    /\ Call("inTransparent", Component("renderRayTransparentComponent"))
    /\ Tick
    /\ UNCHANGED <<scene, features, sampler, result, returned, probe, out>>

RenderRaySkipTransparent ==
    /\ Running("renderRay", "transparent")
    /\ ~TransparentBranch(Top)
    /\ Step("return")
    /\ Tick
    /\ UNCHANGED <<scene, features, sampler, result, returned, probe, out>>

\* return Lo;
RenderRayReturn ==
    /\ Running("renderRay", "return")
    /\ ReturnFromTop(Top.Lo, FALSE)
    /\ Tick
    /\ UNCHANGED <<scene, features, sampler, probe, out>>

(***************************************************************************)
(* The components                                                          *)
(***************************************************************************)
\* The recursive call of a component along ray.
Recurse(ray) ==
    /\ Call("wait", Frame("renderRay", ray, NoHit, Zero3, Top.rayDepth + 1, "intersect"))
    /\ Count("renderRay", 1)

\* Whether renderRaySpecularComponent recurses.
SpecularRecurses(f) ==
    /\ features.enableReflections
    /\ fne(generateReflectionRay(f.ray, f.hitInfo).direction, 0)

RenderRaySpecularComponent ==
    /\ Running("renderRaySpecularComponent", "start")
    /\ IF SpecularRecurses(Top)
       THEN Recurse(generateReflectionRay(Top.ray, Top.hitInfo))
       ELSE Step("done") /\ Tick
    /\ UNCHANGED <<scene, features, sampler, result, returned, probe, out>>

\* Whether renderRayTransparentComponent recurses.
TransparentRecurses(f) ==
    /\ features.enableTransparency
    /\ fne(generatePassthroughRay(f.ray, f.hitInfo).direction, 0)

RenderRayTransparentComponent ==
    /\ Running("renderRayTransparentComponent", "start")
    /\ IF TransparentRecurses(Top)
       THEN Recurse(generatePassthroughRay(Top.ray, Top.hitInfo))
       ELSE Step("done") /\ Tick
    /\ UNCHANGED <<scene, features, sampler, result, returned, probe, out>>

\* renderRayGlossyComponent (extra.cpp): one sample of the glossy lobe, the
\* mirror ray itself, traced at rayDepth + 1 and added as ks * colour.
RenderRayGlossyComponent ==
    /\ Running("renderRayGlossyComponent", "start")
    /\ Recurse(generateReflectionRay(Top.ray, Top.hitInfo))
    /\ UNCHANGED <<scene, features, sampler, result, returned, probe, out>>

\* A component returns: hitColor is the caller's.
ComponentReturn ==
    /\ stack # <<>>
    /\ Top.fn # "renderRay"
    /\ Top.pc = "done"
    /\ ReturnFromTop(Top.Lo, FALSE)
    /\ Tick
    /\ UNCHANGED <<scene, features, sampler, probe, out>>

(***************************************************************************)
(* The scenes and feature configurations rendered.                         *)
(***************************************************************************)
\* Any material or none for the first two surfaces; the surfaces behind
\* them are opaque (material 1) or absent.
SurfaceSets ==
    {f \in [1..NumSurfaces -> {0} \cup MaterialIds] : \A i \in 3..NumSurfaces : f[i] \in {0, 1}}

\* Lights of the scenes rendered: none, the point light, the segment light.
RenderLights == {<<>>, <<LightPalette[1]>>, <<LightPalette[3]>>}

Features(shading, model, shadows, transparency, reflections, glossy, samples) ==
    [enableShading |-> shading, shadingModel |-> model,
     enableTextureMapping |-> FALSE, enableBilinearTextureFiltering |-> FALSE,
     enableShadows |-> shadows, enableTransparency |-> transparency,
     enableReflections |-> reflections, enableGlossyReflection |-> glossy,
     numShadowSamples |-> samples]

RenderFeatures ==
    {Features(TRUE, "Lambertian", shadows, transparency, reflections, glossy, MaxShadowSamples) :
        shadows \in {TRUE}, transparency \in BOOLEAN, reflections \in BOOLEAN,
        glossy \in BOOLEAN}

NoStats == [renderRay |-> 0, light |-> 0, bvh |-> 0, draws |-> 0, steps |-> 0]

NoReturn ==
    [frame |-> Frame("none", Ray(0, 0, 0), NoHit, Zero3, 0, "none"),
     miss |-> FALSE, color |-> Zero3]

NoProbe ==
    [fn |-> "none", lightPosition |-> 0, lightColor |-> Zero3, ray |-> Ray(0, 0, 0),
     hitInfo |-> NoHit]

NoOut == [color |-> Zero3, visible |-> FALSE, bvh |-> 0, shade |-> 0]

\* Nothing has run: no call is active, none has returned.
Fresh ==
    /\ sampler = 0
    /\ stack = <<>>
    /\ result = [done |-> FALSE, color |-> Zero3]
    /\ returned = NoReturn
    /\ stats = NoStats
    /\ probe = NoProbe
    /\ out = NoOut

Init ==
    /\ scene \in {[surfaces |-> f, lights |-> l] : f \in SurfaceSets, l \in RenderLights}
    /\ features \in RenderFeatures
    /\ Fresh

Next ==
    \/ CallRenderRay
    \/ CallSpecularComponent
    \/ CallTransparentComponent
    \/ RenderRayMiss
    \/ RenderRayHit
    \/ RenderRaySpecular
    \/ RenderRaySkipSpecular
    \/ RenderRayGlossy
    \/ RenderRaySkipGlossy
    \/ RenderRayTransparent
    \/ RenderRaySkipTransparent
    \/ RenderRayReturn
    \/ RenderRaySpecularComponent
    \/ RenderRayTransparentComponent
    \/ RenderRayGlossyComponent
    \/ ComponentReturn

Spec == Init /\ [][Next]_vars

(***************************************************************************)
(* The functions of light.cpp called on their own, as their unit tests     *)
(* call them: probe holds the arguments of the call, out what it returned. *)
(***************************************************************************)
\* The incident rays: they left 0 and hit at 1.0 or -1.0, where the first
\* two surfaces are, or at 0.5 or -0.5, where no surface is.
ProbeRays ==
    {Ray(0, d, t) : d \in {-1, 1}, t \in {PassthroughT, PassthroughT \div 2}}

ProbeHitInfos == {[normal |-> n, material |-> Materials[m]] : n \in {-1, 1}, m \in MaterialIds}

\* The light samples: between the first two surfaces, and between the
\* second and the third.
ProbePositions == {0, 2 * PassthroughT}

ProbeColors == {Vec(One, One), Vec(One \div 2, 2 * One)}

Probe(fn, lightPosition, lightColor, ray, hitInfo) ==
    [fn |-> fn, lightPosition |-> lightPosition, lightColor |-> lightColor,
     ray |-> ray, hitInfo |-> hitInfo]

\* The call fn(state, lightPosition, lightColor, ray, hitInfo) returns r.
Returns(fn, lightPosition, lightColor, ray, hitInfo, r) ==
    /\ probe' = Probe(fn, lightPosition, lightColor, ray, hitInfo)
    /\ out' = r
    /\ UNCHANGED <<scene, features, sampler, stack, result, returned, stats>>

\* What a function that returns a colour after bvh BVH intersections gives.
ColorOut(color, bvh) == [color |-> color, visible |-> FALSE, bvh |-> bvh, shade |-> 0]

DispatchOut(r) == ColorOut(r.color, r.bvh)

PointLightOut(r) == [color |-> r.color, visible |-> FALSE, bvh |-> r.bvh, shade |-> r.shade]

CallVisibilityOfLightSample ==
    /\ Idle
    /\ \E p \in ProbePositions, c \in ProbeColors, ray \in ProbeRays, h \in ProbeHitInfos :
          Returns("visibilityOfLightSample", p, c, ray, h,
                  DispatchOut(visibilityOfLightSample(RenderState, p, c, ray, h)))

CallVisibilityOfLightSampleBinary ==
    /\ Idle
    /\ \E p \in ProbePositions, c \in ProbeColors, ray \in ProbeRays, h \in ProbeHitInfos :
          Returns("visibilityOfLightSampleBinary", p, c, ray, h,
                  [color |-> Zero3,
                   visible |-> visibilityOfLightSampleBinary(RenderState, p, c, ray, h),
                   bvh |-> 1, shade |-> 0])

CallVisibilityOfLightSampleTransparency ==
    /\ Idle
    /\ \E p \in ProbePositions, c \in ProbeColors, ray \in ProbeRays, h \in ProbeHitInfos :
          Returns("visibilityOfLightSampleTransparency", p, c, ray, h,
                  ColorOut(visibilityOfLightSampleTransparency(RenderState, p, c, ray, h), 1))

CallComputeContributionPointLight ==
    /\ Idle
    /\ \E p \in ProbePositions, c \in ProbeColors, ray \in ProbeRays, h \in ProbeHitInfos :
          Returns("computeContributionPointLight", p, c, ray, h,
                  PointLightOut(computeContributionPointLight(RenderState, PointLight(p, c),
                                                              ray, h)))

\* The feature configurations of these calls: every combination of shadows
\* and transparency.
LightFeatures ==
    {Features(TRUE, "Lambertian", shadows, transparency, FALSE, FALSE, MaxShadowSamples) :
        shadows \in BOOLEAN, transparency \in BOOLEAN}

LightInit ==
    /\ scene \in {[surfaces |-> f, lights |-> <<>>] : f \in SurfaceSets}
    /\ features \in LightFeatures
    /\ Fresh

LightNext ==
    \/ CallVisibilityOfLightSample
    \/ CallVisibilityOfLightSampleBinary
    \/ CallVisibilityOfLightSampleTransparency
    \/ CallComputeContributionPointLight

LightSpec == LightInit /\ [][LightNext]_vars

(***************************************************************************)
(* Calls of the area-light routines and of computeLightContribution        *)
(* (light.cpp).  probe holds the arguments of the call and the position of *)
(* the sampler before it, out what the call returned and did; the sampler  *)
(* is left where the call left it.                                         *)
(***************************************************************************)
AreaHitInfos == {[normal |-> n, material |-> Materials[m]] : n \in {-1, 1}, m \in {1, 3}}

\* Where the sampler stands before a call.
SamplerStarts == 0..(Len(SampleSeq) - 1)

\* The call fn(state, light, ray, hitInfo, numSamples) with the sampler at
\* smp returns r.
AreaReturns(fn, light, ray, hitInfo, numSamples, smp, r) ==
    /\ probe' = [fn |-> fn, light |-> light, ray |-> ray, hitInfo |-> hitInfo,
                 numSamples |-> numSamples, sampler |-> smp]
    /\ out' = r
    /\ sampler' = r.sampler
    /\ UNCHANGED <<scene, features, stack, result, returned, stats>>

CallComputeContributionSegmentLight ==
    /\ Idle
    /\ \E k \in 1..Len(scene.lights), ray \in ProbeRays, h \in AreaHitInfos,
          smp \in SamplerStarts :
          /\ scene.lights[k].kind = "segment"
          /\ AreaReturns("computeContributionSegmentLight", scene.lights[k], ray, h,
                 features.numShadowSamples, smp,
                 computeContributionSegmentLight(RenderState, scene.lights[k], ray, h,
                                                 features.numShadowSamples, smp))

CallComputeContributionParallelogramLight ==
    /\ Idle
    /\ \E k \in 1..Len(scene.lights), ray \in ProbeRays, h \in AreaHitInfos,
          smp \in SamplerStarts :
          /\ scene.lights[k].kind = "parallelogram"
          /\ AreaReturns("computeContributionParallelogramLight", scene.lights[k], ray, h,
                 features.numShadowSamples, smp,
                 computeContributionParallelogramLight(RenderState, scene.lights[k], ray, h,
                                                       features.numShadowSamples, smp))

CallComputeLightContribution ==
    /\ Idle
    /\ \E ray \in ProbeRays, h \in AreaHitInfos, smp \in SamplerStarts :
          AreaReturns("computeLightContribution", scene.lights, ray, h,
                      features.numShadowSamples, smp,
                      computeLightContribution(RenderState, ray, h, smp))

\* The scenes of these calls: an opaque surface or none on either side of
\* the origin, nothing further away, and up to MaxLights lights in any order.
AreaSurfaces ==
    {f \in SurfaceSets : \A i \in 1..NumSurfaces : f[i] \in (IF i <= 2 THEN {0, 1} ELSE {0})}

AreaPalette == {LightPalette[2], LightPalette[3], LightPalette[4]}

AreaLights == UNION {[1..n -> AreaPalette] : n \in 0..MaxLights}

AreaFeatures ==
    {Features(TRUE, "Lambertian", shadows, FALSE, FALSE, FALSE, n) :
        shadows \in BOOLEAN, n \in 0..MaxShadowSamples}

AreaInit ==
    /\ scene \in {[surfaces |-> f, lights |-> l] : f \in AreaSurfaces, l \in AreaLights}
    /\ features \in AreaFeatures
    /\ Fresh

AreaNext ==
    \/ CallComputeContributionSegmentLight
    \/ CallComputeContributionParallelogramLight
    \/ CallComputeLightContribution

AreaSpec == AreaInit /\ [][AreaNext]_vars

(***************************************************************************)
(* renderRays (recursive.cpp) on a batch of identical rays.  probe holds   *)
(* the arguments and i, the index of the ray being rendered; out holds L,  *)
(* the colour the first renderRay call returned, and whether renderRays    *)
(* has returned.                                                           *)
(***************************************************************************)
\* The sum that is returned as it is.
renderRaysResult_Sum(L, size) == L

\* L / static_cast<float>(rays.size())
renderRaysResult(L, size) == vdiv(L, size)

InRenderRays == probe.fn = "renderRays" /\ stack = <<>> /\ result.done

\* renderRays is called and its loop calls renderRay on the first ray.
CallRenderRays ==
    /\ Idle
    /\ \E d \in Directions, depth \in ComponentDepths, n \in 1..MaxRays :
          /\ probe' = [fn |-> "renderRays", ray |-> Ray(0, d, FltMax), rayDepth |-> depth,
                       size |-> n, i |-> 1]
          /\ stack' = <<Frame("renderRay", Ray(0, d, FltMax), NoHit, Zero3, depth,
                              "intersect")>>
    /\ out' = [color |-> Zero3, first |-> Zero3, done |-> FALSE]
    /\ Count("renderRay", 1)
    /\ UNCHANGED <<scene, features, sampler, result, returned>>

\* L += renderRay(state, ray, rayDepth), and the loop calls renderRay on
\* the next ray.
RenderRaysNext ==
    /\ InRenderRays
    /\ probe.i < probe.size
    /\ out' = [out EXCEPT !.color = vadd(@, result.color),
                          !.first = IF probe.i = 1 THEN result.color ELSE @]
    /\ probe' = [probe EXCEPT !.i = @ + 1]
    /\ result' = [done |-> FALSE, color |-> Zero3]
    /\ stack' = <<Frame("renderRay", probe.ray, NoHit, Zero3, probe.rayDepth, "intersect")>>
    /\ Count("renderRay", 1)
    /\ UNCHANGED <<scene, features, sampler, returned>>

\* L += renderRay(state, ray, rayDepth) for the last ray, and the mean is
\* returned.
RenderRaysReturn ==
    /\ InRenderRays
    /\ probe.i = probe.size
    /\ out' = [color |-> renderRaysResult(vadd(out.color, result.color), probe.size),
               first |-> IF probe.i = 1 THEN result.color ELSE out.first,
               done |-> TRUE]
    /\ result' = [done |-> FALSE, color |-> Zero3]
    /\ Tick
    /\ UNCHANGED <<scene, features, sampler, stack, returned, probe>>

\* The scenes of the batches: nothing, an opaque surface or a reflecting
\* and transparent one on either side of the camera.
BatchSurfaces == {f \in SurfaceSets : \A i \in 1..NumSurfaces : f[i] \in {0, 1, 4}}

BatchFeatures ==
    {Features(TRUE, "Lambertian", TRUE, transparency, reflections, glossy, n) :
        transparency \in BOOLEAN, reflections \in BOOLEAN, glossy \in BOOLEAN,
        n \in {0, MaxShadowSamples}}

BatchInit ==
    /\ scene \in {[surfaces |-> f, lights |-> l] : f \in BatchSurfaces, l \in RenderLights}
    /\ features \in BatchFeatures
    /\ Fresh

BatchNext ==
    \/ CallRenderRays
    \/ RenderRaysNext
    \/ RenderRaysReturn
    \/ RenderRayMiss
    \/ RenderRayHit
    \/ RenderRaySpecular
    \/ RenderRaySkipSpecular
    \/ RenderRayGlossy
    \/ RenderRaySkipGlossy
    \/ RenderRayTransparent
    \/ RenderRaySkipTransparent
    \/ RenderRayReturn
    \/ RenderRaySpecularComponent
    \/ RenderRayTransparentComponent
    \/ RenderRayGlossyComponent
    \/ ComponentReturn

BatchSpec == BatchInit /\ [][BatchNext]_vars

(***************************************************************************)
(* Calls of LinearGradient::sample and of computeBlinnPhongModel           *)
(* (shading.cpp).  probe holds the arguments, out what the call returned.  *)
(***************************************************************************)
\* The t of gradient components and the ti sampled, as fractions of One;
\* ti is a float and may be NaN.
ComponentTs == {-(One \div 2), 0, One \div 2, One}

SampleTs == {-(3 * One) \div 4, -(One \div 2), -(One \div 4), 0, One \div 4, One \div 2,
             (3 * One) \div 4, One, NaN}

\* The colour of the k-th component of a gradient.
ComponentColor(k) == Vec(k * (One \div 4), One - k * (One \div 4))

\* The gradients: up to MaxComponents components with any t, sorted or not.
Gradients ==
    UNION {{[k \in 1..n |-> [t |-> ts[k], color |-> ComponentColor(k)]] :
               ts \in [1..n -> ComponentTs]} : n \in 0..MaxComponents}

ShadingReturns(p, r) ==
    /\ probe' = p
    /\ out' = r
    /\ UNCHANGED <<scene, features, sampler, stack, result, returned, stats>>

CallSample ==
    /\ Idle
    /\ \E components \in Gradients, ti \in SampleTs :
          ShadingReturns([fn |-> "sample", components |-> components, ti |-> ti],
                         sample(components, ti))

CallComputeBlinnPhongModel ==
    /\ Idle
    /\ \E cameraDirection \in Directions, lightDirection \in Directions,
          lightColor \in ProbeColors, h \in ProbeHitInfos :
          ShadingReturns([fn |-> "computeBlinnPhongModel",
                          cameraDirection |-> cameraDirection,
                          lightDirection |-> lightDirection,
                          lightColor |-> lightColor, hitInfo |-> h],
                         [color |-> computeBlinnPhongModel(RenderState, cameraDirection,
                                        lightDirection, lightColor, h)])

ShadingInit ==
    /\ scene = [surfaces |-> [i \in 1..NumSurfaces |-> 0], lights |-> <<>>]
    /\ features = Features(TRUE, "BlinnPhong", FALSE, FALSE, FALSE, FALSE, 0)
    /\ Fresh

ShadingNext ==
    \/ CallSample
    \/ CallComputeBlinnPhongModel

ShadingSpec == ShadingInit /\ [][ShadingNext]_vars

(***************************************************************************)
(* Properties of the renderer.                                             *)
(***************************************************************************)
\* The renderRay invocations of a binary call tree of height MaxRayDepth.
MaxInvocations == 2 ^ (MaxRayDepth + 1) - 1

\* The steps of a renderRay invocation and of the two components it calls:
\* its call, its intersection, its three branches, its return, and a start
\* and a return of each component.
StepsPerInvocation == 6 + 2 * 2

\* The frames of the stack.
Frames == {stack[i] : i \in 1..Len(stack)}

\* A call of renderRay from outside is active.
TopLevelRenderRay == stack # <<>> /\ stack[1].fn = "renderRay" /\ stack[1].rayDepth = 0

\* No call is made at a rayDepth above 6, and a renderRay invocation at
\* rayDepth 6 or more has called nothing: it is the innermost call, before
\* its intersection or at its return.
DepthBounded ==
    /\ \A f \in Frames : f.rayDepth <= MaxRayDepth
    /\ \A i \in 1..Len(stack) :
          stack[i].fn = "renderRay" /\ stack[i].rayDepth >= MaxRayDepth
              => /\ i = Len(stack)
                 /\ stack[i].seen = <<>>
                 /\ stack[i].pc \in {"intersect", "return"}

\* The innermost call stands at a statement it can execute (for each of
\* these one of the actions is enabled: the guards of RenderRayMiss and
\* RenderRayHit, and of each branch and its skip, are complementary), and
\* every other call waits for the call above it.
CanStep ==
    \A i \in 1..Len(stack) :
        IF i = Len(stack)
        THEN IF stack[i].fn = "renderRay"
             THEN stack[i].pc \in {"intersect", "specular", "glossy", "transparent", "return"}
             ELSE stack[i].pc \in {"start", "done"}
        ELSE IF stack[i].fn = "renderRay"
             THEN stack[i].pc \in {"inSpecular", "inGlossy", "inTransparent"}
             ELSE stack[i].pc = "wait" /\ stack[i + 1].fn = "renderRay"

\* C1: a renderRay call started at rayDepth 0 returns after finitely many
\* nested renderRay invocations: while it is active it can take a step, and
\* it takes a bounded number of steps and makes at most 2^7 - 1 invocations;
\* no invocation has a rayDepth above 6, and an invocation at rayDepth 6 or
\* more makes no recursive call.
C1_RecursionTerminates ==
    /\ DepthBounded
    /\ stats.renderRay <= MaxInvocations
    /\ stats.steps <= StepsPerInvocation * MaxInvocations
    /\ CanStep

\* A renderRay invocation at rayDepth 6 has hit a surface that is both
\* reflective and transparent with every recursive feature enabled, in a
\* call tree started at rayDepth 0, and is about to return.
C1_Witness ==
    /\ TopLevelRenderRay
    /\ Top.fn = "renderRay"
    /\ Top.rayDepth = MaxRayDepth
    /\ Top.pc = "return"
    /\ isReflective(Top.hitInfo)
    /\ isTransparent(Top.hitInfo)
    /\ features.enableReflections
    /\ features.enableTransparency

\* renderRay is at its intersection and the BVH reports no hit.
AtMiss == Running("renderRay", "intersect") /\ ~Intersect(scene, Top.ray).hit

\* C2: when the BVH reports no hit, renderRay returns the environment map's
\* sample for its ray: the call is popped with that colour, which its caller
\* or the result receives, and the step computes no light contribution,
\* draws nothing from the sampler and makes no renderRay call.
C2_MissReturnsEnvironment ==
    [][AtMiss =>
        /\ returned'.miss
        /\ returned'.color = sampleEnvironmentMap(scene, Top.ray)
        /\ Len(stack') = Len(stack) - 1
        /\ IF Len(stack) = 1
           THEN result' = [done |-> TRUE, color |-> sampleEnvironmentMap(scene, Top.ray)]
           ELSE /\ stack'[Len(stack')].seen # <<>>
                /\ stack'[Len(stack')].seen[1].color = sampleEnvironmentMap(scene, Top.ray)
        /\ stats'.light = stats.light
        /\ stats'.draws = stats.draws
        /\ stats'.renderRay = stats.renderRay
        /\ sampler' = sampler]_vars

\* A recursive renderRay call has missed in a scene with a light, after the
\* lights were summed for the hit it was made for.
C2_Witness ==
    /\ returned.miss
    /\ returned.frame.rayDepth > 0
    /\ scene.lights # <<>>
    /\ stats.light > 0

\* The renderRay invocations that are past their mirror branch / past all
\* their branches on a hit at rayDepth < 6.
PastMirror ==
    {f \in Frames \cup {returned.frame} :
        /\ f.fn = "renderRay"
        /\ f.rayDepth < MaxRayDepth
        /\ f.pc \in {"glossy", "inGlossy", "transparent", "inTransparent", "return"}}

PastBranches == {f \in PastMirror : f.pc = "return"}

\* The calls of the component fn a frame has made.
CallsOf(f, fn) == {k \in 1..Len(f.seen) : f.seen[k].fn = fn}

\* ks is not the zero vector, reflections are enabled, glossy is disabled.
MirrorCondition(f) ==
    /\ \E i \in Channels : f.hitInfo.material.ks[i] # 0
    /\ features.enableReflections
    /\ ~features.enableGlossyReflection

\* transparency is not 1 and transparency is enabled.
TransparencyCondition(f) ==
    f.hitInfo.material.transparency # One /\ features.enableTransparency

\* hitColor + ks * color, channel by channel.
PlusMirror(hitColor, ks, color) ==
    [i \in Channels |-> hitColor[i] + (ks[i] * color[i]) \div One]

\* hitColor * (1 - transparency) + color * transparency, channel by channel.
Lerp(hitColor, color, transparency) ==
    [i \in Channels |-> (hitColor[i] * (One - transparency)) \div One
                            + (color[i] * transparency) \div One]

\* The call above the component at stack[i], which renderRay called, is a
\* renderRay call at rayDepth + 1 along a ray from origin in direction.
RecursesAlong(i, origin, direction) ==
    /\ stack[i + 1].fn = "renderRay"
    /\ stack[i + 1].rayDepth = stack[i].rayDepth + 1
    /\ stack[i + 1].ray.origin = origin
    /\ stack[i + 1].ray.direction = direction

\* The components renderRay has called and that are waiting for their call.
Waiting(fn) ==
    {i \in 2..(Len(stack) - 1) : stack[i].fn = fn /\ stack[i - 1].fn = "renderRay"}

\* The point a ray has hit.
HitPoint(ray) == ray.origin + ray.direction * ray.t

\* C3: on a hit at rayDepth < 6 renderRay invokes renderRaySpecularComponent
\* exactly when ks is not zero, reflections are enabled and glossy is
\* disabled; the component then makes one renderRay call at rayDepth + 1 on
\* the mirror ray and Lo becomes Lo + ks * the colour returned; otherwise
\* the component is not invoked and Lo stays the light contribution.
C3_MirrorBranch ==
    /\ \A f \in PastMirror :
          IF MirrorCondition(f)
          THEN /\ CallsOf(f, "renderRaySpecularComponent") = {1}
               /\ f.seen[1].recursed
               /\ f.seen[1].before = f.direct
               /\ f.seen[1].after = PlusMirror(f.direct, f.hitInfo.material.ks, f.seen[1].color)
               /\ f.pc = "glossy" => f.Lo = f.seen[1].after
          ELSE /\ CallsOf(f, "renderRaySpecularComponent") = {}
               /\ f.pc = "glossy" => f.Lo = f.direct
    /\ \A i \in 1..(Len(stack) - 1) :
          stack[i].fn = "renderRay" /\ stack[i].pc = "inSpecular"
              => MirrorCondition(stack[i]) /\ stack[i].rayDepth < MaxRayDepth
    /\ \A i \in Waiting("renderRaySpecularComponent") :
          /\ stack[i].seen = <<>>
          /\ RecursesAlong(i,
                 HitPoint(stack[i].ray) + EpsRay * stack[i].hitInfo.normal,
                 stack[i].ray.direction
                     - 2 * (stack[i].ray.direction * stack[i].hitInfo.normal)
                         * stack[i].hitInfo.normal)

\* renderRay is just past a mirror branch that changed Lo.
C3_Witness ==
    /\ Running("renderRay", "glossy")
    /\ MirrorCondition(Top)
    /\ Top.seen # <<>>
    /\ Top.seen[1].recursed
    /\ Top.Lo # Top.direct
    /\ Top.direct # Zero3

\* Lo of a renderRay invocation before its transparency branch: what the
\* mirror or glossy component left, or the light contribution.
BeforeTransparency(f) ==
    IF \E k \in 1..Len(f.seen) : f.seen[k].fn # "renderRayTransparentComponent"
    THEN f.seen[1].after
    ELSE f.direct

\* C4: on a hit at rayDepth < 6 renderRay invokes
\* renderRayTransparentComponent exactly when transparency is not 1 and
\* transparency is enabled; the component then makes one renderRay call at
\* rayDepth + 1 on a ray with the direction of the incident ray, and Lo
\* becomes Lo * (1 - transparency) + the colour returned * transparency;
\* otherwise Lo is left as it was.
C4_TransparencyBranch ==
    /\ \A f \in PastBranches :
          IF TransparencyCondition(f)
          THEN /\ CallsOf(f, "renderRayTransparentComponent") = {Len(f.seen)}
               /\ f.seen[Len(f.seen)].recursed
               /\ f.seen[Len(f.seen)].before = BeforeTransparency(f)
               /\ f.Lo = Lerp(BeforeTransparency(f), f.seen[Len(f.seen)].color,
                              f.hitInfo.material.transparency)
          ELSE /\ CallsOf(f, "renderRayTransparentComponent") = {}
               /\ f.Lo = BeforeTransparency(f)
    /\ \A i \in 1..(Len(stack) - 1) :
          stack[i].fn = "renderRay" /\ stack[i].pc = "inTransparent"
              => TransparencyCondition(stack[i]) /\ stack[i].rayDepth < MaxRayDepth
    /\ \A i \in Waiting("renderRayTransparentComponent") :
          /\ stack[i].seen = <<>>
          /\ RecursesAlong(i, HitPoint(stack[i].ray) + EpsRay, stack[i].ray.direction)

\* renderRay is past a transparency branch that changed Lo, on a material
\* that is not reflective.
C4_Witness ==
    /\ Running("renderRay", "return")
    /\ Top.rayDepth < MaxRayDepth
    /\ TransparencyCondition(Top)
    /\ ~MirrorCondition(Top)
    /\ Top.seen # <<>>
    /\ Top.seen[Len(Top.seen)].color # Top.seen[Len(Top.seen)].before
    /\ Top.Lo # Top.seen[Len(Top.seen)].before
    /\ Top.Lo # Top.seen[Len(Top.seen)].color

\* renderRay has returned from a hit at rayDepth < 6 of a material that is
\* reflective and transparent, with reflections and transparency enabled and
\* glossy disabled.
ReturnedFromBoth ==
    /\ returned.frame.fn = "renderRay"
    /\ ~returned.miss
    /\ returned.frame.rayDepth < MaxRayDepth
    /\ MirrorCondition(returned.frame)
    /\ TransparencyCondition(returned.frame)

\* C5: for a hit at rayDepth < 6 of a material that is reflective and
\* transparent, with reflections and transparency enabled and glossy
\* disabled, renderRay makes both recursive calls, the mirror call first,
\* and returns lerp(direct + ks * mirrorColor, passthroughColor, transparency).
C5_BothBranches ==
    ReturnedFromBoth =>
        /\ Len(returned.frame.seen) = 2
        /\ returned.frame.seen[1].fn = "renderRaySpecularComponent"
        /\ returned.frame.seen[1].recursed
        /\ returned.frame.seen[2].fn = "renderRayTransparentComponent"
        /\ returned.frame.seen[2].recursed
        /\ returned.color =
              Lerp(PlusMirror(returned.frame.direct, returned.frame.hitInfo.material.ks,
                              returned.frame.seen[1].color),
                   returned.frame.seen[2].color,
                   returned.frame.hitInfo.material.transparency)

\* Such a hit has returned a colour that is neither the light contribution
\* nor one of the two colours blended into it.
C5_Witness ==
    /\ ReturnedFromBoth
    /\ returned.frame.direct # Zero3
    /\ returned.color # returned.frame.direct
    /\ returned.color # returned.frame.seen[1].after
    /\ returned.color # returned.frame.seen[2].color

\* The calls of the two unit-tested components, active or just returned.
ComponentCalls ==
    {f \in Frames \cup {returned.frame} :
        f.fn \in {"renderRaySpecularComponent", "renderRayTransparentComponent"}}

\* C6: a component whose incident ray has a zero direction makes no
\* recursive renderRay call and leaves hitColor unchanged.
C6_ZeroDirectionSkips ==
    \A f \in ComponentCalls :
        f.ray.direction = 0 => f.pc # "wait" /\ f.seen = <<>> /\ f.Lo = f.direct

\* renderRaySpecularComponent, called on an incident ray of zero direction
\* with reflections enabled, is waiting for its recursive renderRay call.
C6_Witness ==
    /\ Len(stack) = 2
    /\ stack[1].fn = "renderRaySpecularComponent"
    /\ stack[1].ray.direction = 0
    /\ stack[1].pc = "wait"
    /\ stack[2].fn = "renderRay"
    /\ features.enableReflections

(***************************************************************************)
(* Properties of the visibility functions and of the point light.          *)
(***************************************************************************)
\* The surfaces of the scene that lie from the point o towards the point
\* target, at any distance.
SurfacesToward(o, target) ==
    {i \in 1..NumSurfaces :
        /\ scene.surfaces[i] # 0
        /\ \/ target > o /\ SurfacePos(i) > o
           \/ target < o /\ SurfacePos(i) < o}

\* Those of them that lie before target.
SurfacesBetween(o, target) ==
    {i \in SurfacesToward(o, target) : Abs(SurfacePos(i) - o) < Abs(target - o)}

Opaque(i) == Materials[scene.surfaces[i]].transparency = One

\* lightColor * kd * (1 - transparency), channel by channel.
Attenuated(lightColor, material) ==
    [i \in Channels |->
        (((lightColor[i] * material.kd[i]) \div One) * (One - material.transparency)) \div One]

Probed(fn) == probe.fn = fn

BinaryMode == features.enableShadows /\ ~features.enableTransparency

AttenuatedMode == features.enableShadows /\ features.enableTransparency

\* C7: visibilityOfLightSample, with shadows disabled, returns lightColor
\* and makes no BVH intersection; with shadows enabled and transparency
\* disabled it returns lightColor or zero as visibilityOfLightSampleBinary
\* tells; with both enabled it returns what
\* visibilityOfLightSampleTransparency returns.
C7_Dispatch ==
    Probed("visibilityOfLightSample") =>
        IF ~features.enableShadows
        THEN out.color = probe.lightColor /\ out.bvh = 0
        ELSE IF ~features.enableTransparency
        THEN /\ out.color \in {probe.lightColor, Zero3}
             /\ out.color = probe.lightColor
                    <=> visibilityOfLightSampleBinary(RenderState, probe.lightPosition,
                            probe.lightColor, probe.ray, probe.hitInfo)
        ELSE out.color = visibilityOfLightSampleTransparency(RenderState,
                             probe.lightPosition, probe.lightColor, probe.ray, probe.hitInfo)

\* With shadows disabled the light colour is returned although a surface
\* lies between the point and the light.
C7_Witness ==
    /\ Probed("visibilityOfLightSample")
    /\ ~features.enableShadows
    /\ SurfacesBetween(HitPoint(probe.ray) + EpsShadow, probe.lightPosition) # {}
    /\ out.color = probe.lightColor
    /\ out.bvh = 0

\* C8: in binary mode visibilityOfLightSample returns lightColor when no
\* surface lies from the shadow ray's origin towards the light sample, and
\* zero when an opaque surface lies between the origin and the light sample.
C8_BinaryMode ==
    Probed("visibilityOfLightSample") /\ BinaryMode =>
        /\ SurfacesToward(HitPoint(probe.ray) + EpsShadow, probe.lightPosition) = {}
              => out.color = probe.lightColor
        /\ (\E i \in SurfacesBetween(HitPoint(probe.ray) + EpsShadow, probe.lightPosition) :
               Opaque(i))
              => out.color = Zero3

\* In binary mode an opaque surface lies between a point in the open and
\* the light sample, and zero is returned.
C8_Witness ==
    /\ Probed("visibilityOfLightSample")
    /\ BinaryMode
    /\ probe.ray.t = PassthroughT \div 2
    /\ \E i \in SurfacesBetween(HitPoint(probe.ray) + EpsShadow, probe.lightPosition) :
          Opaque(i)
    /\ out.color = Zero3

\* C9: in attenuated mode visibilityOfLightSample returns lightColor when no
\* surface lies from the shadow ray's origin towards the light sample, and
\* when a surface lies between them it returns lightColor * kd *
\* (1 - transparency) of the material of the hitInfo passed in.
C9_AttenuatedMode ==
    Probed("visibilityOfLightSample") /\ AttenuatedMode =>
        /\ SurfacesToward(HitPoint(probe.ray) + EpsRay, probe.lightPosition) = {}
              => out.color = probe.lightColor
        /\ SurfacesBetween(HitPoint(probe.ray) + EpsRay, probe.lightPosition) # {}
              => out.color = Attenuated(probe.lightColor, probe.hitInfo.material)

\* In attenuated mode the one surface between the point and the light
\* sample has a material that attenuates differently from the receiver's.
C9_Witness ==
    /\ Probed("visibilityOfLightSample")
    /\ AttenuatedMode
    /\ \E i \in 1..NumSurfaces :
          /\ SurfacesBetween(HitPoint(probe.ray) + EpsRay, probe.lightPosition) = {i}
          /\ Attenuated(probe.lightColor, Materials[scene.surfaces[i]])
                 # Attenuated(probe.lightColor, probe.hitInfo.material)
    /\ out.color = Attenuated(probe.lightColor, probe.hitInfo.material)
    /\ out.color # probe.lightColor

\* What computeShading returns for the probed point light.
ProbeShading ==
    computeShading(RenderState, -probe.ray.direction,
                   normalize(probe.lightPosition - (HitPoint(probe.ray) + EpsShadow)),
                   probe.lightColor, probe.hitInfo)

\* What visibilityOfLightSampleBinary tells for the probed point light.
ProbeVisible ==
    visibilityOfLightSampleBinary(RenderState, probe.lightPosition, probe.lightColor,
                                  probe.ray, probe.hitInfo)

\* shading * (1 - transparency) + attenuatedVisibility, channel by channel.
Blend(shading, transparency, attenuatedVisibility) ==
    [i \in Channels |-> (shading[i] * (One - transparency)) \div One + attenuatedVisibility[i]]

\* The colours visibilityOfLightSampleTransparency can return.
AttenuatedVisibilities ==
    {probe.lightColor, Attenuated(probe.lightColor, probe.hitInfo.material)}

\* The claim as the specification states it: one shadow test and one
\* shading evaluation, and the result is the shading when transparency is 1,
\* shading * (1 - transparency) + attenuatedVisibility when it is below 1.
C10_AsStated ==
    Probed("computeContributionPointLight") =>
        /\ out.bvh = 1
        /\ out.shade = 1
        /\ probe.hitInfo.material.transparency = One => out.color = ProbeShading
        /\ probe.hitInfo.material.transparency < One
              => \E a \in AttenuatedVisibilities :
                    out.color = Blend(ProbeShading, probe.hitInfo.material.transparency, a)

\* C10: computeContributionPointLight makes one binary shadow test.  When it
\* tells the light is not visible the result is zero and nothing is shaded.
\* When it tells the light is visible there is one shading evaluation: the
\* result is the shading when transparency is not below 1, and otherwise
\* shading * (1 - transparency) + attenuatedVisibility, where
\* attenuatedVisibility comes from a second shadow test, by
\* visibilityOfLightSampleTransparency.
C10_PointLight ==
    Probed("computeContributionPointLight") =>
        IF ~ProbeVisible
        THEN out.color = Zero3 /\ out.bvh = 1 /\ out.shade = 0
        ELSE IF probe.hitInfo.material.transparency < One
        THEN /\ out.bvh = 2
             /\ out.shade = 1
             /\ \E a \in AttenuatedVisibilities :
                   out.color = Blend(ProbeShading, probe.hitInfo.material.transparency, a)
        ELSE out.color = ProbeShading /\ out.bvh = 1 /\ out.shade = 1

\* The point light is occluded for a point whose shading is not zero, and
\* contributes nothing.
C10_Witness ==
    /\ Probed("computeContributionPointLight")
    /\ ~ProbeVisible
    /\ ProbeShading # Zero3
    /\ out.color = Zero3
    /\ out.shade = 0

(***************************************************************************)
(* Properties of the area lights and of computeLightContribution.          *)
(***************************************************************************)
\* What the k-th sample (from 0) of the probed segment-light call does when
\* it is taken alone: its shading if it is visible, nothing otherwise.
SegmentSampleAlone(k) ==
    segmentSample(RenderState, probe.ray, probe.hitInfo, NoLight(probe.sampler + k),
                  sampleSegmentLight(SampleAt(probe.sampler + k), probe.light))

ParallelogramSampleAlone(k) ==
    parallelogramSample(RenderState, probe.ray, probe.hitInfo,
        NoLight(probe.sampler + 2 * k),
        sampleParallelogramLight(<<SampleAt(probe.sampler + 2 * k),
                                   SampleAt(probe.sampler + 2 * k + 1)>>, probe.light))

\* The sum of the shading of the visible ones of the first n samples.
RECURSIVE SegmentSum(_)
SegmentSum(n) ==
    IF n = 0 THEN Zero3 ELSE vadd(SegmentSum(n - 1), SegmentSampleAlone(n - 1).color)

RECURSIVE ParallelogramSum(_)
ParallelogramSum(n) ==
    IF n = 0 THEN Zero3
    ELSE vadd(ParallelogramSum(n - 1), ParallelogramSampleAlone(n - 1).color)

\* The mean of a sum over n samples; the zero vector for no samples.
MeanOf(sum, n) == IF n = 0 THEN Zero3 ELSE vdiv(sum, n)

\* C11: a segment (parallelogram) light sampled numSamples = n >= 0 times
\* takes exactly n draws from the sampler, one next_1d (next_2d) per sample
\* whatever the visibility of the sample, and returns the sum of the shading
\* of the visible samples divided by n; for n = 0 it draws nothing, divides
\* nothing and returns the zero vector.
C11_AreaLightSampling ==
    /\ probe.fn = "computeContributionSegmentLight" =>
          /\ out.draws = probe.numSamples
          /\ out.bvh = probe.numSamples
          /\ out.sampler = probe.sampler + probe.numSamples
          /\ out.color = MeanOf(SegmentSum(probe.numSamples), probe.numSamples)
    /\ probe.fn = "computeContributionParallelogramLight" =>
          /\ out.draws = probe.numSamples
          /\ out.bvh = probe.numSamples
          /\ out.sampler = probe.sampler + 2 * probe.numSamples
          /\ out.color = MeanOf(ParallelogramSum(probe.numSamples), probe.numSamples)

\* A segment light sampled more than once gave light.
C11_Witness ==
    /\ probe.fn = "computeContributionSegmentLight"
    /\ probe.numSamples = MaxShadowSamples
    /\ out.draws = MaxShadowSamples
    /\ anyNotZero(out.color)

\* The numbers a light takes from the sampler for n shadow samples.
NumbersOf(light, n) ==
    CASE light.kind = "point" -> 0
      [] light.kind = "segment" -> n
      [] light.kind = "parallelogram" -> 2 * n

\* The numbers the lights stored before light k of the probed call take.
RECURSIVE NumbersBefore(_)
NumbersBefore(k) ==
    IF k = 1 THEN 0
    ELSE NumbersBefore(k - 1) + NumbersOf(probe.light[k - 1], probe.numSamples)

\* The contribution of light k of the probed call, the sampler standing
\* behind the numbers of the lights stored before it.
ContributionOf(k) ==
    lightContribution(RenderState, probe.light[k], probe.ray, probe.hitInfo,
                      probe.sampler + NumbersBefore(k))

RECURSIVE PlainSum(_)
PlainSum(k) == IF k = 0 THEN Zero3 ELSE vadd(PlainSum(k - 1), ContributionOf(k).color)

RECURSIVE SamplerCalls(_)
SamplerCalls(k) == IF k = 0 THEN 0 ELSE SamplerCalls(k - 1) + ContributionOf(k).draws

\* C12: computeLightContribution visits the lights of the scene in storage
\* order, each once, and returns the plain sum of their contributions, the
\* zero vector for a scene without lights; the area lights take their
\* numbers from the sampler in storage order.
C12_LightsInStorageOrder ==
    probe.fn = "computeLightContribution" =>
        /\ out.color = PlainSum(Len(probe.light))
        /\ out.draws = SamplerCalls(Len(probe.light))
        /\ out.sampler = probe.sampler + NumbersBefore(Len(probe.light) + 1)
        /\ Len(probe.light) = 0 => out.color = Zero3 /\ out.draws = 0

\* Two area lights of different kinds were summed, and the second gave
\* something else than it gives when it draws first.
C12_Witness ==
    /\ probe.fn = "computeLightContribution"
    /\ Len(probe.light) = 2
    /\ probe.light[1].kind = "parallelogram"
    /\ probe.light[2].kind = "segment"
    /\ probe.numSamples > 0
    /\ ContributionOf(2).color #
           lightContribution(RenderState, probe.light[2], probe.ray, probe.hitInfo,
                             probe.sampler).color
    /\ anyNotZero(ContributionOf(1).color)
    /\ out.color = vadd(ContributionOf(1).color, ContributionOf(2).color)

(***************************************************************************)
(* Properties of renderRays.                                               *)
(***************************************************************************)
BatchReturned == probe.fn = "renderRays" /\ out.done

\* C13 as stated: renderRays over N >= 1 identical rays returns the colour
\* of a single renderRay call on that ray, in every scene and configuration.
C13_AsStated == BatchReturned => out.color = out.first

\* C13: renderRays over N >= 1 identical rays returns the colour of a single
\* renderRay call on that ray at the same rayDepth whenever the calls take
\* nothing from the sampler.
C13_IdenticalRays == BatchReturned /\ stats.draws = 0 => out.color = out.first

\* A batch of several rays that hit a lit surface, without a draw.
C13_Witness ==
    /\ BatchReturned
    /\ probe.size = MaxRays
    /\ stats.draws = 0
    /\ stats.light >= MaxRays
    /\ anyNotZero(out.color)
    /\ out.color = out.first

(***************************************************************************)
(* Properties of the shading.                                              *)
(***************************************************************************)
Sampled == probe.fn = "sample"

Components == Len(probe.components)

\* The components are sorted by ascending t and no two have the same t.
SortedDistinct ==
    \A k \in 1..(Components - 1) : probe.components[k].t < probe.components[k + 1].t

\* C14: for a gradient of at least 2 components sorted by ascending t with
\* pairwise distinct t, sample returns the first component's colour for ti
\* at or below the smallest t, the last component's colour for ti at or
\* above the largest t, and the colour of component k itself, never a blend,
\* for ti equal to the t of an interior component k.
C14_ExactColors ==
    Sampled /\ Components >= 2 /\ SortedDistinct =>
        /\ fle(probe.ti, probe.components[1].t) =>
              out = [color |-> probe.components[1].color, failed |-> "none"]
        /\ fle(probe.components[Components].t, probe.ti) =>
              out = [color |-> probe.components[Components].color, failed |-> "none"]
        /\ \A k \in 2..(Components - 1) :
              probe.ti = probe.components[k].t =>
                  out = [color |-> probe.components[k].color, failed |-> "none"]

\* ti is the t of the interior component of a sorted gradient, and its
\* colour, which is no other component's, is returned.
C14_Witness ==
    /\ Sampled
    /\ Components = 3
    /\ SortedDistinct
    /\ probe.ti = probe.components[2].t
    /\ out.color = probe.components[2].color
    /\ out.color # probe.components[1].color
    /\ out.color # probe.components[3].color

BlinnPhongProbed == probe.fn = "computeBlinnPhongModel"

\* dot(N, H) of the probed call, H = normalize(L + V).
ProbeNdotH ==
    dot(normalize(probe.hitInfo.normal),
        normalize(fadd(normalize(probe.lightDirection), normalize(probe.cameraDirection))))

\* kd * lightColor * max(0, dot(N, L)) of the probed call.
DiffuseTerm ==
    vtimes(vmul(sampleMaterialKd(RenderState, probe.hitInfo), probe.lightColor),
           glmMax(dot(normalize(probe.hitInfo.normal), normalize(probe.lightDirection)), 0))

\* C15: for every material with shininess >= 0, shininess 0 included, and
\* every pair of view and light directions, the specular term of
\* computeBlinnPhongModel is the zero vector whenever dot(N, H) <= 0, so the
\* result is the diffuse term kd * lightColor * max(0, dot(N, L)) alone.
C15_SpecularZero ==
    BlinnPhongProbed /\ probe.hitInfo.material.shininess >= 0 /\ fle(ProbeNdotH, 0) =>
        out.color = DiffuseTerm

\* A material of shininess 0 seen and lit from behind: the result is the
\* diffuse term plus the whole of ks * lightColor.
C15_Witness ==
    /\ BlinnPhongProbed
    /\ probe.hitInfo.material.shininess = 0
    /\ fle(ProbeNdotH, 0)
    /\ anyNotZero(vmul(probe.hitInfo.material.ks, probe.lightColor))
    /\ out.color = vadd(DiffuseTerm, vmul(probe.hitInfo.material.ks, probe.lightColor))
    /\ out.color # DiffuseTerm

\* The state of the probed call with every surface taken out of the scene.
Unoccluded ==
    [scene |-> [surfaces |-> [i \in 1..NumSurfaces |-> 0], lights |-> scene.lights],
     features |-> features]

\* C16: with shadows disabled computeLightContribution makes no shadow-ray
\* BVH intersection for any kind of light, and a surface between the hit
\* point and a light does not reduce what the light contributes.
C16_NoShadowTests ==
    probe.fn = "computeLightContribution" /\ ~features.enableShadows =>
        /\ out.bvh = 0
        /\ out.color = computeLightContribution(Unoccluded, probe.ray, probe.hitInfo,
                                                probe.sampler).color

\* Shadows are disabled, a surface lies between the hit point and the only
\* light, a point light: a BVH intersection is made and the light, which
\* gives something to the same point in the open, gives nothing.
C16_Witness ==
    /\ probe.fn = "computeLightContribution"
    /\ ~features.enableShadows
    /\ Len(probe.light) = 1
    /\ probe.light[1].kind = "point"
    /\ SurfacesBetween(HitPoint(probe.ray) + EpsShadow, probe.light[1].position) # {}
    /\ out.bvh = 1
    /\ out.color = Zero3
    /\ anyNotZero(computeLightContribution(Unoccluded, probe.ray, probe.hitInfo,
                                           probe.sampler).color)

(***************************************************************************)
(* Properties of the binary shadow test and of the secondary rays.         *)
(***************************************************************************)
\* The origin of the shadow ray of the probed call.
ShadowOrigin == HitPoint(probe.ray) + EpsShadow

\* C17: visibilityOfLightSampleBinary returns true when its shadow ray hits
\* nothing and when the nearest thing it hits lies beyond the light; it
\* returns false only when something is hit between the point and the light.
C17_BeyondTheLight ==
    Probed("visibilityOfLightSampleBinary") =>
        /\ SurfacesToward(ShadowOrigin, probe.lightPosition) = {} => out.visible
        /\ SurfacesBetween(ShadowOrigin, probe.lightPosition) = {} => out.visible
        /\ ~out.visible => SurfacesBetween(ShadowOrigin, probe.lightPosition) # {}

\* Nothing lies between the point and the light, a surface lies beyond the
\* light, and the light is reported not visible.
C17_Witness ==
    /\ Probed("visibilityOfLightSampleBinary")
    /\ SurfacesBetween(ShadowOrigin, probe.lightPosition) = {}
    /\ SurfacesToward(ShadowOrigin, probe.lightPosition) # {}
    /\ ~out.visible

\* The positions on the stack of the recursive renderRay calls that have
\* just been handed their secondary ray.
SecondaryCalls ==
    {i \in 2..Len(stack) :
        /\ stack[i].fn = "renderRay"
        /\ stack[i].pc = "intersect"
        /\ stack[i - 1].fn \in {"renderRaySpecularComponent", "renderRayGlossyComponent",
                                "renderRayTransparentComponent"}}

\* The ray with no limit on the distance of a hit.
Unbounded(ray) == [ray EXCEPT !.t = FltMax]

\* C18: every secondary ray handed to a recursive renderRay call, the mirror
\* ray and the passthrough ray alike, starts with an unbounded t, so the
\* intersection of the recursive call reports a hit at any distance along
\* the ray.
C18_SecondaryRaysUnbounded ==
    \A i \in SecondaryCalls :
        /\ stack[i].ray.t = FltMax
        /\ Intersect(scene, stack[i].ray).hit
               <=> Intersect(scene, Unbounded(stack[i].ray)).hit

\* The passthrough ray handed to a recursive renderRay call has t = 1.0 and
\* a surface lies further than that along it: the call will miss it.
C18_Witness ==
    /\ Len(stack) >= 2
    /\ Len(stack) \in SecondaryCalls
    /\ stack[Len(stack) - 1].fn = "renderRayTransparentComponent"
    /\ Top.ray.t = PassthroughT
    /\ ~Intersect(scene, Top.ray).hit
    /\ Intersect(scene, Unbounded(Top.ray)).hit

(***************************************************************************)
(* Properties of the search loop of LinearGradient::sample.                *)
(***************************************************************************)
\* ta <= ti <= tb for the adjacent components i and i + 1.
PairAt(i) ==
    fle(probe.components[i].t, probe.ti) /\ fle(probe.ti, probe.components[i + 1].t)

\* The first such pair.
FirstPair ==
    CHOOSE i \in 1..(Components - 1) : PairAt(i) /\ \A j \in 1..(i - 1) : ~PairAt(j)

\* ti lies strictly between the t of the first and of the last component.
StrictlyBetween ==
    /\ Components >= 2
    /\ flt(probe.components[1].t, probe.ti)
    /\ flt(probe.ti, probe.components[Components].t)

\* The blend of the pair i at ti.
BlendAt(i) ==
    mix(probe.components[i].color, probe.components[i + 1].color,
        ((probe.ti - probe.components[i].t) * One)
            \div (probe.components[i + 1].t - probe.components[i].t))

\* C19: for any sequence of at least 2 components, sorted or not, and any
\* ti strictly between the t of the first and of the last component, the
\* search loop of sample finds an adjacent pair with ta <= ti <= tb and
\* returns the blend of the first such pair, so the trailing assert(false)
\* is not reached (nor is it for any other ti that is a number); with fewer
\* than 2 components the entry assertion fails and no colour is returned.
C19_LoopFindsPair ==
    Sampled =>
        /\ StrictlyBetween =>
              /\ \E i \in 1..(Components - 1) : PairAt(i)
              /\ probe.components[FirstPair].t < probe.components[FirstPair + 1].t
              /\ out = [color |-> BlendAt(FirstPair), failed |-> "none"]
        /\ Components >= 2 /\ ~IsNaN(probe.ti) => out.failed = "none"
        /\ Components < 2 => out.failed = "size"

\* In a gradient that is not sorted, ti lies strictly between the first and
\* the last t and the pair found is not the first one.
C19_Witness ==
    /\ Sampled
    /\ Components = 3
    /\ probe.components[2].t < probe.components[1].t
    /\ StrictlyBetween
    /\ FirstPair = 2
    /\ out = [color |-> BlendAt(2), failed |-> "none"]

====
